---- MODULE Spec2Model ----
(***************************************************************************)
(* Model of jQuery.fn.alignWith (src/jquery.alignwith.js).                 *)
(*                                                                         *)
(* Strings are sequences of characters.  A printable ASCII character, TAB, *)
(* LF, CR and FF are one-character strings (" ", "\t", "\n", "\r", "\f");  *)
(* every other character is written by its code point, as in "U+00A0".     *)
(* JavaScript values                                                       *)
(* (an options field, a css() result) are tagged records.  Pixel numbers   *)
(* computed by the plug-in are records [nan, v] where v is the value in    *)
(* HALF pixels (v = 2 * px), so that tW / 2 is exact for odd sizes.        *)
(***************************************************************************)
EXTENDS Integers, Sequences, FiniteSets, TLC

\* ------------------------------------------------------------------ bounds
NumMovers == 2
MaxShift == 1

\* ------------------------------------------------------- JavaScript values
Undef == [t |-> "undef", n |-> 0, s |-> <<>>, b |-> FALSE]
NumV(n) == [t |-> "num", n |-> n, s |-> <<>>, b |-> FALSE]
StrV(s) == [t |-> "str", n |-> 0, s |-> s, b |-> FALSE]
BoolV(b) == [t |-> "bool", n |-> 0, s |-> <<>>, b |-> b]

NaN == [nan |-> TRUE, v |-> 0]
NumOf(px) == [nan |-> FALSE, v |-> 2 * px]
HalfOf(px) == [nan |-> FALSE, v |-> px]
Add(a, b) == IF a.nan \/ b.nan THEN NaN ELSE [nan |-> FALSE, v |-> a.v + b.v]
Sub(a, b) == IF a.nan \/ b.nan THEN NaN ELSE [nan |-> FALSE, v |-> a.v - b.v]

DigitChars == <<"0", "1", "2", "3", "4", "5", "6", "7", "8", "9">>
IsDigit(ch) == \E d \in 1..10 : DigitChars[d] = ch
DigitVal(ch) == (CHOOSE d \in 1..10 : DigitChars[d] = ch) - 1

RECURSIVE NatToStr(_)
NatToStr(n) ==
    IF n < 10 THEN <<DigitChars[n + 1]>>
    ELSE NatToStr(n \div 10) \o <<DigitChars[(n % 10) + 1]>>

\* JsString of a JavaScript value, as applied by RegExp.test and parseInt
JsString(val) ==
    CASE val.t = "undef" -> <<"u", "n", "d", "e", "f", "i", "n", "e", "d">>
      [] val.t = "num" -> IF val.n < 0 THEN <<"-">> \o NatToStr(-val.n)
                          ELSE NatToStr(val.n)
      [] val.t = "bool" -> IF val.b THEN <<"t", "r", "u", "e">>
                           ELSE <<"f", "a", "l", "s", "e">>
      [] OTHER -> val.s

\* the white space and line terminators parseInt strips (ECMAScript
\* WhiteSpace and LineTerminator): space, TAB, LF, CR, FF, VT, NBSP, BOM and
\* the Unicode space separators
WhiteSpace ==
    { " ", "\t", "\n", "\r", "\f", "U+000B", "U+00A0", "U+FEFF", "U+1680",
      "U+2000", "U+2001", "U+2002", "U+2003", "U+2004", "U+2005", "U+2006",
      "U+2007", "U+2008", "U+2009", "U+200A", "U+2028", "U+2029", "U+202F",
      "U+205F", "U+3000" }

RECURSIVE SkipWs(_, _)
SkipWs(s, i) == IF i <= Len(s) /\ s[i] \in WhiteSpace THEN SkipWs(s, i + 1) ELSE i

RECURSIVE DigitsEnd(_, _)
DigitsEnd(s, i) == IF i <= Len(s) /\ IsDigit(s[i]) THEN DigitsEnd(s, i + 1) ELSE i

RECURSIVE DigitsVal(_, _, _)
DigitsVal(s, i, j) ==
    IF j <= i THEN 0 ELSE 10 * DigitsVal(s, i, j - 1) + DigitVal(s[j - 1])

\* parseInt(val, 10): leading white space, optional sign, longest run of digits
ParseInt(val) ==
    LET s == JsString(val)
        i == SkipWs(s, 1)
        signed == i <= Len(s) /\ s[i] \in {"+", "-"}
        neg == i <= Len(s) /\ s[i] = "-"
        j == IF signed THEN i + 1 ELSE i
        k == DigitsEnd(s, j)
    IN  IF k = j THEN NaN
        ELSE NumOf(IF neg THEN -DigitsVal(s, j, k) ELSE DigitsVal(s, j, k))

\* parseInt(...) || 0
OrZero(n) == IF n.nan \/ n.v = 0 THEN NumOf(0) ELSE n

\* ------------------------------------------------------ regular expressions
Letters == {"t", "b", "l", "r", "c", "m"}

Lower(ch) ==
    CASE ch = "T" -> "t" [] ch = "B" -> "b" [] ch = "L" -> "l"
      [] ch = "R" -> "r" [] ch = "C" -> "c" [] ch = "M" -> "m"
      [] OTHER -> ch

LowerStr(s) == [i \in 1..Len(s) |-> Lower(s[i])]

\* /^[tblrcm]{1,4}$/   (no i flag)
rValidNoLen(s) == \A i \in 1..Len(s) : s[i] \in Letters
rValid(s) == Len(s) \in 1..4 /\ \A i \in 1..Len(s) : s[i] \in Letters

\* /^([tbcm]{2}|lr|rl)$/i
rXMNoRl(s) ==
    LET u == LowerStr(s)
    IN  Len(u) = 2 /\ ( (u[1] \in {"t", "b", "c", "m"} /\ u[2] \in {"t", "b", "c", "m"})
                        \/ u = <<"l", "r">> )
rXM(s) ==
    LET u == LowerStr(s)
    IN  Len(u) = 2 /\ ( (u[1] \in {"t", "b", "c", "m"} /\ u[2] \in {"t", "b", "c", "m"})
                        \/ u = <<"l", "r">> \/ u = <<"r", "l">> )

\* /^r?[rtbcm]r?$/i
rXRNoRr(s) ==
    LET u == LowerStr(s)
    IN  \E a \in {0, 1}, z \in {0, 1} :
            /\ Len(u) = a + 1 + z
            /\ a = 1 => u[1] = "r"
            /\ u[a + 1] \in {"t", "b", "c", "m"}
            /\ z = 1 => u[Len(u)] = "r"
rXR(s) ==
    LET u == LowerStr(s)
    IN  \E a \in {0, 1}, z \in {0, 1} :
            /\ Len(u) = a + 1 + z
            /\ a = 1 => u[1] = "r"
            /\ u[a + 1] \in {"r", "t", "b", "c", "m"}
            /\ z = 1 => u[Len(u)] = "r"

\* /^([lrcm]{2}|tb|bt)$/i
rYM(s) ==
    LET u == LowerStr(s)
    IN  Len(u) = 2 /\ ( (u[1] \in {"l", "r", "c", "m"} /\ u[2] \in {"l", "r", "c", "m"})
                        \/ u = <<"t", "b">> \/ u = <<"b", "t">> )

\* /^b?[lrbcm]b?$/i
rYB(s) ==
    LET u == LowerStr(s)
    IN  \E a \in {0, 1}, z \in {0, 1} :
            /\ Len(u) = a + 1 + z
            /\ a = 1 => u[1] = "b"
            /\ u[a + 1] \in {"l", "r", "b", "c", "m"}
            /\ z = 1 => u[Len(u)] = "b"

\* --------------------------------------------------- position string -> pT, pE
\* "Reset pos if it's invalid"
ResetPos(posArg) == IF ~rValid(JsString(posArg)) THEN <<"c">> ELSE JsString(posArg)

\* "Flesh out 4-point position string": the switch on args.length
FleshOutBadCase3(p) ==
    CASE Len(p) = 1 -> [pT |-> p \o p, pE |-> p \o p]
      [] Len(p) = 2 -> [pT |-> p, pE |-> p]
      [] Len(p) = 3 -> [pT |-> <<p[1], p[2]>>, pE |-> <<p[2], p[3]>>]
      [] Len(p) = 4 -> [pT |-> <<p[1], p[2]>>, pE |-> <<p[3], p[4]>>]
      [] OTHER -> [pT |-> <<>>, pE |-> <<>>]
FleshOutNoDouble(p) ==
    CASE Len(p) = 1 -> [pT |-> p, pE |-> p]
      [] Len(p) = 2 -> [pT |-> p, pE |-> p]
      [] Len(p) = 3 -> [pT |-> <<p[1], p[2]>>, pE |-> <<p[3], p[3]>>]
      [] Len(p) = 4 -> [pT |-> <<p[1], p[2]>>, pE |-> <<p[3], p[4]>>]
      [] OTHER -> [pT |-> <<>>, pE |-> <<>>]
FleshOut(p) ==
    CASE Len(p) = 1 -> [pT |-> p \o p, pE |-> p \o p]
      [] Len(p) = 2 -> [pT |-> p, pE |-> p]
      [] Len(p) = 3 -> [pT |-> <<p[1], p[2]>>, pE |-> <<p[3], p[3]>>]
      [] Len(p) = 4 -> [pT |-> <<p[1], p[2]>>, pE |-> <<p[3], p[4]>>]
      [] OTHER -> [pT |-> <<>>, pE |-> <<>>]

\* ------------------------------------------------------------------ options
DefaultOp == [x |-> NumV(0), y |-> NumV(0), appendToBody |-> BoolV(FALSE)]

\* if (undefined !== options) { $.extend(op, options); }
\* $.extend skips the fields that are undefined in options
Extend(op, options) ==
    [f \in DOMAIN op |-> IF options[f].t = "undef" THEN op[f] ELSE options[f]]

\* if (op.appendToBody)
Truthy(val) ==
    CASE val.t = "bool" -> val.b
      [] val.t = "num" -> val.n # 0
      [] val.t = "str" -> val.s # <<>>
      [] OTHER -> FALSE

\* ------------------------------------------------------------- the each body
\* if (rXM.test(p)) .. else if (rXR.test(p)) ..  as the multiple of half sizes
XPoint(p) == IF rXM(p) THEN 1 ELSE IF rXR(p) THEN 2 ELSE 0
YPoint(p) == IF rYM(p) THEN 1 ELSE IF rYB(p) THEN 2 ELSE 0

\* if (0 !== off) { t += parseInt(off, 10); }
AddOffsetPositiveOnly(t, off) ==
    IF off.t = "num" /\ off.n <= 0 THEN t ELSE Add(t, ParseInt(off))
AddOffset(t, off) ==
    IF off.t = "num" /\ off.n = 0 THEN t ELSE Add(t, ParseInt(off))

\* tX -= parseInt(t.css('margin-left'), 10) || 0
SubMarginAdded(t, margin) == Add(t, OrZero(ParseInt(margin)))
SubMargin(t, margin) == Sub(t, OrZero(ParseInt(margin)))

\* one axis of the each body: start e0, mover size tS, target size eS
AlignAxis(e0, tS, eS, kT, kE, margin, off) ==
    LET t1 == Sub(NumOf(e0), HalfOf(kT * tS))
        t2 == Add(t1, HalfOf(kE * eS))
        t3 == SubMargin(t2, margin)
    IN  AddOffset(t3, off)

\* ------------------------------------------------------------------- inputs
AllPos == UNION {[1..n -> Letters] : n \in 0..4}

\* position arguments the validation must reject whatever the letter case
BadPos ==
    { Undef,
      StrV(<<>>),
      StrV(<<"x", "y", "z", "1", "2", "3">>),
      StrV(<<"t", "l", "b", "r", "c">>),
      StrV(<<" ", "t", "l">>),
      StrV(<<"t", "1">>) }

\* valid letters written with capitals
UpperPos ==
    { StrV(<<"T", "L">>), StrV(<<"T", "L", "B", "R">>), StrV(<<"R">>),
      StrV(<<"t", "L">>), StrV(<<"B", "r", "C">>) }

PosArgs == {StrV(p) : p \in AllPos \ {<<>>}} \cup BadPos \cup UpperPos

NoOptions == [x |-> Undef, y |-> Undef, appendToBody |-> Undef]
OptionArgs ==
    { NoOptions,
      [x |-> NumV(5), y |-> NumV(5), appendToBody |-> Undef],
      [x |-> NumV(-3), y |-> NumV(0), appendToBody |-> BoolV(TRUE)],
      [x |-> NumV(0), y |-> NumV(12), appendToBody |-> BoolV(FALSE)],
      [x |-> StrV(<<"\t", " ", "7">>), y |-> StrV(<<"\n", "-", "2", "p", "x">>), appendToBody |-> Undef],
      [x |-> StrV(<<"a", "b", "c">>), y |-> Undef, appendToBody |-> Undef] }

TargetRects ==
    { [x |-> 100, y |-> 200, w |-> 80, h |-> 60],
      [x |-> 7, y |-> -3, w |-> 5, h |-> 0] }

Px0 == StrV(<<"0", "p", "x">>)
Px10 == StrV(<<"1", "0", "p", "x">>)
PxAuto == StrV(<<"a", "u", "t", "o">>)
PxNeg4 == StrV(<<"-", "4", "p", "x">>)

\* the movers of the jQuery set: outer size and computed margins
MoverKinds ==
    << [w |-> 40, h |-> 20, ml |-> Px0, mt |-> Px0],
       [w |-> 15, h |-> 7, ml |-> Px10, mt |-> PxNeg4],
       [w |-> 0, h |-> 33, ml |-> Undef, mt |-> PxAuto] >>
MoverSets ==
    { [i \in 1..NumMovers |-> MoverKinds[((i + k) % 3) + 1]] : k \in {2, 0} }

Unstyled == [position |-> "static", left |-> NaN, top |-> NaN]

\* ------------------------------------------------------------------- state
VARIABLES
    elem,      \* live geometry of the target: offset().left/top, outerWidth/Height
    movers,    \* the jQuery set `this`: outer size and margins of each element
    css,       \* position/left/top applied to each mover
    parent,    \* "orig" or "body" for each mover
    pc,        \* "idle", "each" (inside this.each), "done" (returned)
    posArg,    \* the pos argument of the call
    optArg,    \* the options argument of the call
    eX, eY, eW, eH,   \* the target's geometry read at the start of the call
    pT, pE,    \* the 2-character point codes
    op,        \* the merged options
    idx        \* the next element of `this` that each() visits

vars == <<elem, movers, css, parent, pc, posArg, optArg, eX, eY, eW, eH, pT, pE, op, idx>>

Init ==
    /\ elem \in TargetRects
    /\ movers \in MoverSets
    /\ css = [i \in 1..NumMovers |-> Unstyled]
    /\ parent = [i \in 1..NumMovers |-> "orig"]
    /\ pc = "idle"
    /\ posArg = Undef
    /\ optArg = NoOptions
    /\ eX = 0 /\ eY = 0 /\ eW = 0 /\ eH = 0
    /\ pT = <<>> /\ pE = <<>>
    /\ op = DefaultOp
    /\ idx = 1

\* alignWith(elem, pos, options) up to the call of this.each
Call ==
    /\ pc = "idle"
    /\ \E p \in PosArgs, o \in OptionArgs :
        /\ posArg' = p
        /\ optArg' = o
        /\ op' = Extend(DefaultOp, o)
        /\ pT' = FleshOut(ResetPos(p)).pT
        /\ pE' = FleshOut(ResetPos(p)).pE
    /\ eX' = elem.x /\ eY' = elem.y /\ eW' = elem.w /\ eH' = elem.h
    /\ idx' = 1
    /\ pc' = "each"
    /\ UNCHANGED <<elem, movers, css, parent>>

\* var tX = eX, tY = eY
StartLive == [x |-> elem.x, y |-> elem.y, w |-> elem.w, h |-> elem.h]
Start == [x |-> eX, y |-> eY, w |-> eW, h |-> eH]

\* the position the each callback computes for mover m
Position(st, m, cT, cE, o) ==
    [ left |-> AlignAxis(st.x, m.w, st.w, XPoint(cT), XPoint(cE), m.ml, o.x),
      top |-> AlignAxis(st.y, m.h, st.h, YPoint(cT), YPoint(cE), m.mt, o.y) ]

\* what moving an element can do to the target's live layout
Reflows(r, x0) ==
    IF r.x - x0 < MaxShift THEN {r, [r EXCEPT !.x = r.x + 1, !.w = r.w + 2]} ELSE {r}

\* one run of the each callback, on element idx
Each ==
    /\ pc = "each"
    /\ idx <= NumMovers
    /\ LET p == Position(Start, movers[idx], pT, pE, op)
       IN  css' = [css EXCEPT ![idx] = [position |-> "absolute", left |-> p.left, top |-> p.top]]
    /\ parent' = [parent EXCEPT ![idx] = IF Truthy(op.appendToBody) THEN "body" ELSE @]
    /\ elem' \in Reflows(elem, eX)
    /\ idx' = idx + 1
    /\ UNCHANGED <<movers, pc, posArg, optArg, eX, eY, eW, eH, pT, pE, op>>

\* this.each returns the jQuery set
Return ==
    /\ pc = "each"
    /\ idx > NumMovers
    /\ pc' = "done"
    /\ UNCHANGED <<elem, movers, css, parent, posArg, optArg, eX, eY, eW, eH, pT, pE, op, idx>>

Next == Call \/ Each \/ Return

Spec == Init /\ [][Next]_vars

\* ------------------------------------------------------------ properties
Positioned(i) == pc # "idle" /\ i < idx
Snapshot == [x |-> eX, y |-> eY, w |-> eW, h |-> eH]
Applied(q) == [position |-> "absolute", left |-> q.left, top |-> q.top]
LowerPos == {StrV(p) : p \in AllPos \ {<<>>}}
Centre == FleshOut(<<"c">>)

\* C1: a position argument that is not 1 to 4 letters of the alphabet (empty,
\* missing, too long, foreign characters) positions every mover as "c" does.
C1_InvalidPosIsCentre ==
    \A i \in 1..NumMovers :
        (Positioned(i) /\ posArg \in BadPos) =>
            css[i] = Applied(Position(Snapshot, movers[i], Centre.pT, Centre.pE, op))

C1_Witness ==
    /\ pc = "done"
    /\ posArg = StrV(<<"x", "y", "z", "1", "2", "3">>)
    /\ css[1] = Applied([left |-> NumOf(120), top |-> NumOf(220)])

\* C2: a position string written with capitals positions every mover as its
\* lower-case form does.
C2_CaseInsensitive ==
    \A i \in 1..NumMovers :
        (Positioned(i) /\ posArg \in UpperPos) =>
            LET q == FleshOut(LowerStr(posArg.s))
            IN  css[i] = Applied(Position(Snapshot, movers[i], q.pT, q.pE, op))

\* C3: for a valid position string s the two point codes have 2 characters
\* and follow the length rules (s+s; s; s[1..2] and s[3] doubled; s[1..2] and
\* s[3..4]).
C3_LengthRules ==
    (pc # "idle" /\ posArg \in LowerPos) =>
        LET p == posArg.s
        IN  /\ Len(pT) = 2 /\ Len(pE) = 2
            /\ Len(p) = 1 => (pT = <<p[1], p[1]>> /\ pE = <<p[1], p[1]>>)
            /\ Len(p) = 2 => (pT = p /\ pE = p)
            /\ Len(p) = 3 => (pT = SubSeq(p, 1, 2) /\ pE = <<p[3], p[3]>>)
            /\ Len(p) = 4 => (pT = SubSeq(p, 1, 2) /\ pE = SubSeq(p, 3, 4))

C3_Witness ==
    /\ pc = "done"
    /\ posArg = StrV(<<"t", "l", "r">>)
    /\ pT = <<"t", "l">>
    /\ pE = <<"r", "r">>

\* the classes as the specification words them: 0 start, 1 centre, 2 end
HClass(c) ==
    IF (c[1] \in {"t", "b", "c", "m"} /\ c[2] \in {"t", "b", "c", "m"}) \/ {c[1], c[2]} = {"l", "r"}
    THEN 1
    ELSE IF "r" \in {c[1], c[2]} THEN 2 ELSE 0
VClass(c) ==
    IF (c[1] \in {"l", "r", "c", "m"} /\ c[2] \in {"l", "r", "c", "m"}) \/ {c[1], c[2]} = {"t", "b"}
    THEN 1
    ELSE IF "b" \in {c[1], c[2]} THEN 2 ELSE 0

\* C4: for each 2-character code the calculation uses horizontal centre iff
\* both characters are in {t,b,c,m} or the code is one l and one r, else end
\* iff it contains r, else start; and the mirrored rule vertically.
C4_AxisClasses ==
    (pc # "idle" /\ posArg \in LowerPos) =>
        \A c \in {pT, pE} :
            /\ XPoint(c) = HClass(c)
            /\ YPoint(c) = VClass(c)

C4_Witness ==
    /\ pc = "done"
    /\ pT = <<"r", "r">>
    /\ pE = <<"b", "l">>
    /\ css[1].left = NumOf(60)
    /\ css[1].top = NumOf(250)

\* margins and offsets that are integers, as the claim reads them
MarginPx(m) ==
    CASE m = Px0 -> 0 [] m = Px10 -> 10 [] m = PxNeg4 -> -4 [] OTHER -> 0
IntMargins(m) == m.ml \in {Px0, Px10, PxNeg4} /\ m.mt \in {Px0, Px10, PxNeg4}
IntOffsets == op.x.t = "num" /\ op.y.t = "num"

\* C5: left = target.x - k(moverH)*mover.width + k(targetH)*target.width
\* - marginLeft + offsetX and likewise top, with k = 0, 1/2, 1 for start,
\* centre, end (written in half pixels); "tl" on target 100,200,80,60 gives
\* 100,200 and "tlr" gives 180,230.
C5_PositionFormula ==
    \A i \in 1..NumMovers :
        (Positioned(i) /\ posArg \in LowerPos /\ IntMargins(movers[i]) /\ IntOffsets) =>
            LET m == movers[i]
            IN  /\ ~css[i].left.nan /\ ~css[i].top.nan
                /\ css[i].position = "absolute"
                /\ css[i].left.v = 2 * eX - HClass(pT) * m.w + HClass(pE) * eW
                                   - 2 * MarginPx(m.ml) + 2 * op.x.n
                /\ css[i].top.v = 2 * eY - VClass(pT) * m.h + VClass(pE) * eH
                                  - 2 * MarginPx(m.mt) + 2 * op.y.n
                /\ (Snapshot = [x |-> 100, y |-> 200, w |-> 80, h |-> 60]
                    /\ m.ml = Px0 /\ m.mt = Px0 /\ op.x.n = 0 /\ op.y.n = 0) =>
                      /\ posArg.s = <<"t", "l">> => (css[i].left = NumOf(100) /\ css[i].top = NumOf(200))
                      /\ posArg.s = <<"t", "l", "r">> => (css[i].left = NumOf(180) /\ css[i].top = NumOf(230))

C5_Witness ==
    /\ pc = "done"
    /\ posArg = StrV(<<"t", "l", "r">>)
    /\ optArg = NoOptions
    /\ movers[1] = MoverKinds[1]
    /\ css[1] = Applied([left |-> NumOf(180), top |-> NumOf(230)])

\* a margin or offset that does not read as a number
NonNumeric(val) == ParseInt(val).nan
ZeroMargins(m) ==
    [m EXCEPT !.ml = IF NonNumeric(@) THEN Px0 ELSE @,
              !.mt = IF NonNumeric(@) THEN Px0 ELSE @]
ZeroOffsets(o) ==
    [o EXCEPT !.x = IF NonNumeric(@) THEN NumV(0) ELSE @,
              !.y = IF NonNumeric(@) THEN NumV(0) ELSE @]

\* C6: a missing or non-numeric margin or offset counts as zero; left and top
\* are the numbers obtained with 0 in its place, never NaN.
C6_NonNumericIsZero ==
    \A i \in 1..NumMovers :
        Positioned(i) =>
            /\ ~css[i].left.nan /\ ~css[i].top.nan
            /\ css[i] = Applied(Position(Snapshot, ZeroMargins(movers[i]), pT, pE, ZeroOffsets(op)))

\* C7: every mover of the call is positioned from the target geometry read
\* at the start of the call, also after the target's live geometry changed.
C7_OneSnapshot ==
    \A i \in 1..NumMovers :
        Positioned(i) =>
            css[i] = Applied(Position(Snapshot, movers[i], pT, pE, op))

C7_Witness ==
    /\ pc = "done"
    /\ elem.x # eX
    /\ elem.w # eW
    /\ css[NumMovers].position = "absolute"

Rev(c) == <<c[2], c[1]>>

\* C8: a point code and the code with its two characters swapped give the
\* same classes and the same position, as mover code and as target code;
\* "lr" and "rl" are horizontally centred.
C8_OrderIrrelevant ==
    (pc # "idle" /\ posArg \in LowerPos) =>
        /\ \A c \in {pT, pE} :
            /\ XPoint(c) = XPoint(Rev(c))
            /\ YPoint(c) = YPoint(Rev(c))
            /\ c \in {<<"l", "r">>, <<"r", "l">>} => XPoint(c) = 1
        /\ \A i \in 1..NumMovers :
            Positioned(i) =>
                css[i] = Applied(Position(Snapshot, movers[i], Rev(pT), Rev(pE), op))

C8_Witness ==
    /\ pc = "done"
    /\ pT = <<"r", "l">>
    /\ pE = <<"l", "t">>
    /\ css[1] = Applied([left |-> NumOf(80), top |-> NumOf(190)])

\* the point a single letter names: <<horizontal, vertical>>
SidePoint(ch) ==
    CASE ch \in {"c", "m"} -> <<1, 1>>
      [] ch = "t" -> <<1, 0>>
      [] ch = "b" -> <<1, 2>>
      [] ch = "l" -> <<0, 1>>
      [] ch = "r" -> <<2, 1>>

\* C9: a single letter s gives the result of s+s, and the same point on both
\* rectangles: full centre for c/m, the mid-point of the named edge for
\* t, b, l, r.
C9_SingleLetter ==
    (pc # "idle" /\ posArg \in LowerPos /\ Len(posArg.s) = 1) =>
        LET ch == posArg.s[1]
            q == FleshOut(<<ch, ch>>)
        IN  /\ <<XPoint(pT), YPoint(pT)>> = SidePoint(ch)
            /\ <<XPoint(pE), YPoint(pE)>> = SidePoint(ch)
            /\ \A i \in 1..NumMovers :
                Positioned(i) =>
                    css[i] = Applied(Position(Snapshot, movers[i], q.pT, q.pE, op))

C9_Witness ==
    /\ pc = "done"
    /\ posArg = StrV(<<"b">>)
    /\ css[1] = Applied([left |-> NumOf(120), top |-> NumOf(240)])

\* C10: with integer offsets (dx, dy), positive, zero or negative, the
\* position is the position for offsets (0, 0) moved by exactly (dx, dy).
C10_OffsetLinear ==
    \A i \in 1..NumMovers :
        (Positioned(i) /\ IntOffsets) =>
            LET z == Position(Snapshot, movers[i], pT, pE, DefaultOp)
            IN  /\ css[i].left = Add(z.left, NumOf(op.x.n))
                /\ css[i].top = Add(z.top, NumOf(op.y.n))

C10_Witness ==
    /\ pc = "done"
    /\ op.x = NumV(-3)
    /\ posArg = StrV(<<"t", "l">>)
    /\ css[1].left = NumOf(97)

====
